---- MODULE Spec2Model ----
(***************************************************************************)
(* Model of the Zenvia v2 API client (src/src/zenvia_v2_api/zenvia.py).    *)
(*                                                                         *)
(* The client is a synchronous object holding a token.  Every public       *)
(* method validates its arguments, builds one HTTP request, hands it to    *)
(* the transport (requests.get/post/delete) and turns the transport's      *)
(* answer into a returned value or a raised exception.  A public call is   *)
(* modelled in two steps: the method up to the point where the request is  *)
(* on the wire (pc = "waiting"), and the rest of request_get /             *)
(* request_post / request_delete once the transport has answered.          *)
(*                                                                         *)
(* Python values: strings are TLA+ strings, the value None is the token    *)
(* None below, dicts are functions from keys to values, an exception is    *)
(* its class name and its str() text.                                      *)
(***************************************************************************)
EXTENDS Integers, Sequences, FiniteSets, TLC

VARIABLES
    token,      \* ZenviaAPI._token
    initToken,  \* the token passed to __init__ (history)
    pc,         \* "idle": no call in progress; "waiting": a request is on the wire
    call,       \* the public call in progress or last finished: [op, args]
    nreq,       \* number of HTTP requests that call has issued
    req,        \* the last HTTP request issued
    hdrs,       \* the header dicts of every request issued since construction
    result,     \* what the transport answered to the last request
    outcome,    \* how the last call ended: returned value or raised exception
    ncalls      \* number of public calls started

vars == <<token, initToken, pc, call, nreq, req, hdrs, result, outcome, ncalls>>

\* Number of public calls made on one client.
MaxCalls == 2

None == "<None>"

API_HOST == "https://api.zenvia.com/v2/"

(***************************************************************************)
(* Inputs                                                                  *)
(***************************************************************************)
\* The second token is one the remote API would reject.
Tokens == {"tok-A", ""}

EventTypes == {"MESSAGE", "MESSAGE_STATUS", "DELIVERY"}
Statuses == {None, "ACTIVE", "DEGRADED", "INACTIVE", "PAUSED"}
Directions == {None, "IN", "OUT", "SIDEWAYS"}
CriteriaChannels == {"WhatsApp"}
WebhookHeaders == {<<>>}

\* A URL string, split into its lexical parts.
Url_ok == <<"https", "://", "example.com", "/hook">>
Url_text == <<"not a url">>
Url_nohost == <<"https", "://">>
Url_noscheme == <<"example.com", "/hook">>
WebhookUrls == {Url_ok, Url_text, Url_noscheme}

\* Values passed as webhook id: ints, strings (sequences of characters), None.
IdInt(i) == [t |-> "int", i |-> i, s |-> <<>>]
IdStr(s) == [t |-> "str", i |-> 0, s |-> s]
IdNone == [t |-> "none", i |-> 0, s |-> <<>>]
WebhookIds ==
    { IdInt(7), IdStr(<<"4", "2">>), IdStr(<<" ", "7", " ">>), IdStr(<<"-", "3">>),
      IdStr(<<"a", "b">>), IdStr(<<>>), IdStr(<<"+">>), IdNone }

TemplateIds == {"c5f3228e", "tpl/1"}
TemplateChannels == {None, "WHATSAPP", "SMS", "RCS", "EMAIL", "INVALID"}
TemplateStatuses == {None, "WAITING_REVIEW", "APPROVED", "DISABLED", "ACTIVE"}
SenderIds == {None, "soft-harbor"}

Senders == {"soft-harbor"}
Recipients == {"5511974510831"}
Texts == {"testando 1234"}
TemplateFields == {<<>>, [name |-> "Andre"]}

(***************************************************************************)
(* The transport's answers                                                 *)
(***************************************************************************)
\* A response body is a sequence of JSON lexemes.
P(c) == [k |-> "punct", v |-> c]
S(s) == [k |-> "str", v |-> s]
J(s) == [k |-> "junk", v |-> s]

Body_badfield == <<P("{"), S("message"), P(":"), S("bad field"), P("}")>>
Body_two == <<P("{"), S("id"), P(":"), S("w1"), P(","), S("status"), P(":"), S("ACTIVE"), P("}")>>
Body_emptyobj == <<P("{"), P("}")>>
Body_empty == <<>>
Body_html == <<J("<html>")>>
Bodies == {Body_badfield, Body_two, Body_emptyobj, Body_empty, Body_html}

StatusCodes == {200, 204, 302, 422, 500}

Reason(code) ==
    CASE code = 200 -> "OK"
      [] code = 204 -> "No Content"
      [] code = 302 -> "Found"
      [] code = 422 -> "Unprocessable Entity"
      [] code = 500 -> "Internal Server Error"
      [] OTHER -> ""

Responded(code, body) ==
    [kind |-> "response", status_code |-> code, body |-> body, exc |-> "", text |-> ""]
Failed(exc, text) ==
    [kind |-> "exception", status_code |-> 0, body |-> <<>>, exc |-> exc, text |-> text]
NoResult ==
    [kind |-> "none", status_code |-> 0, body |-> <<>>, exc |-> "", text |-> ""]

TransportErrors ==
    { Failed("ConnectionError", "connection refused"),
      Failed("Timeout", "read timed out") }
TransportResults ==
    { Responded(c, b) : c \in StatusCodes, b \in Bodies } \cup TransportErrors

(***************************************************************************)
(* Library functions the client calls                                      *)
(***************************************************************************)
\* urllib.parse.urljoin of the base host (which ends in "/") and a relative
\* endpoint: the endpoint appended to the base.
urljoin(base, endpoint) == base \o endpoint

\* int(x) of Python: an int is itself; a string is stripped of surrounding
\* whitespace and must then be an optional sign followed by decimal digits
\* (ValueError otherwise); None is a TypeError.
Digits == <<"0", "1", "2", "3", "4", "5", "6", "7", "8", "9">>
IsDigit(c) == \E i \in DOMAIN Digits : Digits[i] = c
DigitVal(c) == (CHOOSE i \in DOMAIN Digits : Digits[i] = c) - 1
IsSpace(c) == c \in {" ", "\t", "\n"}

RECURSIVE lstrip(_)
lstrip(s) == IF s # <<>> /\ IsSpace(Head(s)) THEN lstrip(Tail(s)) ELSE s

RECURSIVE rstrip(_)
rstrip(s) ==
    IF s # <<>> /\ IsSpace(s[Len(s)]) THEN rstrip(SubSeq(s, 1, Len(s) - 1)) ELSE s

RECURSIVE DecimalValue(_)
DecimalValue(s) ==
    IF s = <<>> THEN 0
    ELSE 10 * DecimalValue(SubSeq(s, 1, Len(s) - 1)) + DigitVal(s[Len(s)])

IntOk(i) == [ok |-> TRUE, v |-> i, exc |-> ""]
IntErr(e) == [ok |-> FALSE, v |-> 0, exc |-> e]

python_int(x) ==
    CASE x.t = "int" -> IntOk(x.i)
      [] x.t = "none" -> IntErr("TypeError")
      [] OTHER ->
            LET body == rstrip(lstrip(x.s))
                signed == body # <<>> /\ Head(body) \in {"+", "-"}
                digits == IF signed THEN Tail(body) ELSE body
            IN  IF digits # <<>> /\ \A k \in DOMAIN digits : IsDigit(digits[k])
                THEN IntOk(IF signed /\ Head(body) = "-"
                           THEN 0 - DecimalValue(digits)
                           ELSE DecimalValue(digits))
                ELSE IntErr("ValueError")

\* validators.url: the string has a known scheme, "://" and a non-empty host.
UrlSchemes == {"http", "https", "ftp", "ftps"}
validators_url(u) ==
    /\ Len(u) >= 3
    /\ u[1] \in UrlSchemes
    /\ u[2] = "://"
    /\ u[3] # ""

\* Decoded JSON values.
JsonDict(items) == [t |-> "dict", items |-> items, s |-> ""]
JsonList(items) == [t |-> "list", items |-> items, s |-> ""]
JsonStr(s) == [t |-> "str", items |-> <<>>, s |-> s]
NoValue == [t |-> "none", items |-> <<>>, s |-> ""]

Decoded(v) == [ok |-> TRUE, value |-> v]
DecodeError == [ok |-> FALSE, value |-> NoValue]

\* The members of a JSON object: "key": "value" pairs separated by commas.
RECURSIVE json_members(_)
json_members(toks) ==
    IF Len(toks) < 3 THEN DecodeError
    ELSE IF toks[1].k = "str" /\ toks[2] = P(":") /\ toks[3].k = "str"
    THEN LET pair == [key |-> toks[1].v, val |-> toks[3].v]
         IN  IF Len(toks) = 3 THEN Decoded(<<pair>>)
             ELSE IF toks[4] = P(",")
             THEN LET rest == json_members(SubSeq(toks, 5, Len(toks)))
                  IN  IF rest.ok THEN Decoded(<<pair>> \o rest.value)
                      ELSE DecodeError
             ELSE DecodeError
    ELSE DecodeError

\* Response.json(): the body decoded, or a JSON decode error.
response_json(body) ==
    IF body = <<>> THEN DecodeError
    ELSE IF Len(body) = 1
    THEN IF body[1].k = "str" THEN Decoded(JsonStr(body[1].v)) ELSE DecodeError
    ELSE IF body = <<P("["), P("]")>> THEN Decoded(JsonList(<<>>))
    ELSE IF body[1] = P("{") /\ body[Len(body)] = P("}")
    THEN IF Len(body) = 2 THEN Decoded(JsonDict(<<>>))
         ELSE LET m == json_members(SubSeq(body, 2, Len(body) - 1))
              IN  IF m.ok THEN Decoded(JsonDict(m.value)) ELSE DecodeError
    ELSE DecodeError

Quoted(s) == "\"" \o s \o "\""

RECURSIVE dumps_items(_)
dumps_items(items) ==
    IF items = <<>> THEN ""
    ELSE "  " \o Quoted(items[1].key) \o ": " \o Quoted(items[1].val)
         \o (IF Len(items) = 1 THEN "" ELSE ",\n" \o dumps_items(Tail(items)))

\* json.dumps(value, indent=2)
json_dumps_indent2(v) ==
    CASE v.t = "dict" ->
            IF v.items = <<>> THEN "{}" ELSE "{\n" \o dumps_items(v.items) \o "\n}"
      [] v.t = "list" -> "[]"
      [] v.t = "str" -> Quoted(v.s)
      [] OTHER -> "null"

\* Response.raise_for_status(): the text of the HTTPError it raises, or "" when
\* it raises nothing (any status outside 400..599).
raise_for_status(r, url) ==
    IF 400 <= r.status_code /\ r.status_code < 500
    THEN ToString(r.status_code) \o " Client Error: " \o Reason(r.status_code)
         \o " for url: " \o url
    ELSE IF 500 <= r.status_code /\ r.status_code < 600
    THEN ToString(r.status_code) \o " Server Error: " \o Reason(r.status_code)
         \o " for url: " \o url
    ELSE ""

\* Response.ok: raise_for_status() raises nothing.
response_ok(r) == raise_for_status(r, "") = ""

JSONDecodeErrorText == "Expecting value: line 1 column 1 (char 0)"

(***************************************************************************)
(* The client                                                              *)
(***************************************************************************)
NoReq == [method |-> "", url |-> "", headers |-> <<>>, params |-> <<>>, json |-> <<>>]
NoOutcome == [kind |-> "none", exc |-> "", msg |-> "", value |-> NoValue]
Returned(v) == [kind |-> "return", exc |-> "", msg |-> "", value |-> v]
Raised(exc, msg) == [kind |-> "raise", exc |-> exc, msg |-> msg, value |-> NoValue]
NoCall == [op |-> "", args |-> <<>>]

\* ZenviaAPI.__init__: the token is stored; nothing is sent.
Init ==
    /\ token \in Tokens
    /\ initToken = token
    /\ pc = "idle"
    /\ call = NoCall
    /\ nreq = 0
    /\ req = NoReq
    /\ hdrs = {}
    /\ result = NoResult
    /\ outcome = NoOutcome
    /\ ncalls = 0

\* get_auth_header with the token under another header name.
get_auth_header_bearer(tok) == "Authorization" :> tok

\* ZenviaAPI.get_auth_header
get_auth_header(tok) == "X-API-Token" :> tok

\* A public method is entered: the caller is not inside another call.
Enter(op, args) ==
    /\ pc = "idle"
    /\ ncalls < MaxCalls
    /\ ncalls' = ncalls + 1
    /\ call' = [op |-> op, args |-> args]
    /\ result' = NoResult
    /\ UNCHANGED <<token, initToken>>

\* The method raises before it reaches a request helper.
RaiseLocally(exc, msg) ==
    /\ pc' = "idle"
    /\ nreq' = 0
    /\ req' = NoReq
    /\ outcome' = Raised(exc, msg)
    /\ UNCHANGED hdrs

\* request_get / request_post / request_delete up to the transport call: the
\* url and the auth header are built and the request is handed to requests.
Send(method, endpoint, params, data) ==
    LET auth_header == get_auth_header(token)
    IN  /\ pc' = "waiting"
        /\ nreq' = 1
        /\ req' = [method |-> method, url |-> urljoin(API_HOST, endpoint),
                   headers |-> auth_header, params |-> params, json |-> data]
        /\ hdrs' = hdrs \cup {auth_header}
        /\ outcome' = NoOutcome

\* request_get after the transport answered r.
request_get_result(r, url) ==
    IF r.kind = "exception"
    THEN Raised("ZenviaAPIRequestException", r.text)
    ELSE IF raise_for_status(r, url) # ""
    THEN Raised("ZenviaAPIRequestException", raise_for_status(r, url))
    ELSE LET d == response_json(r.body)
         IN  IF d.ok THEN Returned(d.value)
             ELSE Raised("JSONDecodeError", JSONDecodeErrorText)

\* request_post after the transport answered r.
request_post_result(r, url) ==
    IF r.kind = "exception"
    THEN Raised("ZenviaAPIRequestException", r.text)
    ELSE LET d == response_json(r.body)
         IN  IF ~response_ok(r)
             THEN IF d.ok
                  THEN Raised("ZenviaAPIRequestException",
                              "Request reponse with error status["
                              \o ToString(r.status_code) \o "]:\n"
                              \o json_dumps_indent2(d.value))
                  ELSE Raised("JSONDecodeError", JSONDecodeErrorText)
             ELSE IF d.ok THEN Returned(d.value)
                  ELSE Raised("JSONDecodeError", JSONDecodeErrorText)

\* request_delete after the transport answered r.
request_delete_result(r, url) ==
    IF r.kind = "exception"
    THEN Raised("ZenviaAPIRequestException", r.text)
    ELSE IF raise_for_status(r, url) # ""
    THEN Raised("ZenviaAPIRequestException", raise_for_status(r, url))
    ELSE LET d == response_json(r.body)
         IN  IF d.ok THEN Returned(d.value)
             ELSE Raised("JSONDecodeError", JSONDecodeErrorText)

Finish(o, r) ==
    /\ pc' = "idle"
    /\ result' = r
    /\ outcome' = o
    /\ UNCHANGED <<token, initToken, call, nreq, req, hdrs, ncalls>>

request_get ==
    /\ pc = "waiting"
    /\ req.method = "GET"
    /\ \E r \in TransportResults : Finish(request_get_result(r, req.url), r)

request_post ==
    /\ pc = "waiting"
    /\ req.method = "POST"
    /\ \E r \in TransportResults : Finish(request_post_result(r, req.url), r)

request_delete ==
    /\ pc = "waiting"
    /\ req.method = "DELETE"
    /\ \E r \in TransportResults : Finish(request_delete_result(r, req.url), r)

webhook_list ==
    /\ Enter("webhook_list", <<>>)
    /\ Send("GET", "subscriptions", <<>>, <<>>)

webhook_retrieve ==
    \E id \in WebhookIds :
        /\ Enter("webhook_retrieve", [id |-> id])
        /\ LET n == python_int(id)
           IN  IF n.ok
               THEN Send("GET", "subscriptions/" \o ToString(n.v), <<>>, <<>>)
               ELSE RaiseLocally(n.exc, "")

webhook_delete ==
    \E id \in WebhookIds :
        /\ Enter("webhook_delete", [id |-> id])
        /\ LET n == python_int(id)
           IN  IF n.ok
               THEN Send("DELETE", "subscriptions/" \o ToString(n.v), <<>>, <<>>)
               ELSE RaiseLocally(n.exc, "")

\* The validation without its last check.
webhook_create_validation_no_url(event_type, status, criteria_direction, webhook_url) ==
    IF event_type \notin {"MESSAGE", "MESSAGE_STATUS"}
    THEN "event_type not in [MESSAGE, MESSAGE_STATUS]"
    ELSE IF status # None /\ status \notin {"ACTIVE", "DEGRADED", "INACTIVE"}
    THEN "status not in [ACTIVE, DEGRADED, INACTIVE]"
    ELSE IF event_type = "MESSAGE" /\ criteria_direction = None
    THEN "event_type == MESSAGE and criteria_direction is None"
    ELSE IF event_type = "MESSAGE" /\ criteria_direction \notin {"IN", "OUT"}
    THEN "criteria_direction not in [IN, OUT]"
    ELSE ""

\* The validation with the status check moved before the event_type check.
webhook_create_validation_status_first(event_type, status, criteria_direction, webhook_url) ==
    IF status # None /\ status \notin {"ACTIVE", "DEGRADED", "INACTIVE"}
    THEN "status not in [ACTIVE, DEGRADED, INACTIVE]"
    ELSE IF event_type \notin {"MESSAGE", "MESSAGE_STATUS"}
    THEN "event_type not in [MESSAGE, MESSAGE_STATUS]"
    ELSE IF event_type = "MESSAGE" /\ criteria_direction = None
    THEN "event_type == MESSAGE and criteria_direction is None"
    ELSE IF event_type = "MESSAGE" /\ criteria_direction \notin {"IN", "OUT"}
    THEN "criteria_direction not in [IN, OUT]"
    ELSE IF ~validators_url(webhook_url)
    THEN "webhook_url is not a well formated url"
    ELSE ""

\* webhook_create, "Validation of function parameters": the message of the
\* first check that fails, "" when all pass.
webhook_create_validation(event_type, status, criteria_direction, webhook_url) ==
    IF event_type \notin {"MESSAGE", "MESSAGE_STATUS"}
    THEN "event_type not in [MESSAGE, MESSAGE_STATUS]"
    ELSE IF status # None /\ status \notin {"ACTIVE", "DEGRADED", "INACTIVE"}
    THEN "status not in [ACTIVE, DEGRADED, INACTIVE]"
    ELSE IF event_type = "MESSAGE" /\ criteria_direction = None
    THEN "event_type == MESSAGE and criteria_direction is None"
    ELSE IF event_type = "MESSAGE" /\ criteria_direction \notin {"IN", "OUT"}
    THEN "criteria_direction not in [IN, OUT]"
    ELSE IF ~validators_url(webhook_url)
    THEN "webhook_url is not a well formated url"
    ELSE ""

\* The payload with the direction of a MESSAGE webhook fixed to "IN".
webhook_create_data_fixed_direction(event_type, webhook_url, webhook_headers, criteria_channel, criteria_direction, status) ==
    IF event_type = "MESSAGE"
    THEN [eventType |-> "MESSAGE",
          webhook |-> [url |-> webhook_url, headers |-> webhook_headers],
          status |-> status,
          version |-> "v2",
          criteria |-> [channel |-> criteria_channel, direction |-> "IN"]]
    ELSE IF event_type = "MESSAGE_STATUS"
    THEN [eventType |-> "MESSAGE_STATUS",
          webhook |-> [url |-> webhook_url, headers |-> webhook_headers],
          status |-> status,
          version |-> "v2",
          criteria |-> [channel |-> criteria_channel]]
    ELSE <<>>

\* The payload built the same way for both event types.
webhook_create_data_always_direction(event_type, webhook_url, webhook_headers, criteria_channel, criteria_direction, status) ==
    IF event_type \in {"MESSAGE", "MESSAGE_STATUS"}
    THEN [eventType |-> event_type,
          webhook |-> [url |-> webhook_url, headers |-> webhook_headers],
          status |-> status,
          version |-> "v2",
          criteria |-> [channel |-> criteria_channel,
                        direction |-> criteria_direction]]
    ELSE <<>>

\* webhook_create, the payload: <<>> when event_type is neither of the two.
webhook_create_data(event_type, webhook_url, webhook_headers, criteria_channel, criteria_direction, status) ==
    IF event_type = "MESSAGE"
    THEN [eventType |-> "MESSAGE",
          webhook |-> [url |-> webhook_url, headers |-> webhook_headers],
          status |-> status,
          version |-> "v2",
          criteria |-> [channel |-> criteria_channel,
                        direction |-> criteria_direction]]
    ELSE IF event_type = "MESSAGE_STATUS"
    THEN [eventType |-> "MESSAGE_STATUS",
          webhook |-> [url |-> webhook_url, headers |-> webhook_headers],
          status |-> status,
          version |-> "v2",
          criteria |-> [channel |-> criteria_channel]]
    ELSE <<>>

webhook_create ==
    \E event_type \in EventTypes, webhook_url \in WebhookUrls,
       webhook_headers \in WebhookHeaders, criteria_channel \in CriteriaChannels,
       criteria_direction \in Directions, status \in Statuses :
        /\ Enter("webhook_create",
                 [event_type |-> event_type, webhook_url |-> webhook_url,
                  webhook_headers |-> webhook_headers,
                  criteria_channel |-> criteria_channel,
                  criteria_direction |-> criteria_direction, status |-> status])
        /\ LET err == webhook_create_validation(event_type, status,
                                                criteria_direction, webhook_url)
               data == webhook_create_data(event_type, webhook_url, webhook_headers,
                                           criteria_channel, criteria_direction,
                                           status)
           IN  IF err # ""
               THEN RaiseLocally("ZenviaAPIFunctionValidation", err)
               ELSE IF event_type \notin {"MESSAGE", "MESSAGE_STATUS"}
               THEN RaiseLocally("ZenviaAPIFunctionValidation",
                                 "event_type not avaiable: " \o event_type)
               ELSE Send("POST", "subscriptions", <<>>, data)

whatsapp_send_text ==
    \E msg_from \in Senders, msg_to \in Recipients, text \in Texts :
        /\ Enter("whatsapp_send_text",
                 [msg_from |-> msg_from, msg_to |-> msg_to, text |-> text])
        /\ Send("POST", "channels/whatsapp/messages", <<>>,
                [from |-> msg_from, to |-> msg_to,
                 contents |-> <<[type |-> "text", text |-> text]>>])

whatsapp_send_templated ==
    \E msg_from \in Senders, msg_to \in Recipients, template_id \in TemplateIds,
       fields \in TemplateFields :
        /\ Enter("whatsapp_send_templated",
                 [msg_from |-> msg_from, msg_to |-> msg_to,
                  template_id |-> template_id, fields |-> fields])
        /\ Send("POST", "channels/whatsapp/messages", <<>>,
                [from |-> msg_from, to |-> msg_to,
                 contents |-> <<[type |-> "template", templateId |-> template_id,
                                 fields |-> fields]>>])

\* The query parameters with the channel passed on unfiltered.
template_list_params_unfiltered(channel, sender_id, status) ==
    LET p1 == IF channel # None THEN "channel" :> channel ELSE <<>>
        p2 == IF status # None
                 /\ status \in {"WAITING_REVIEW", "REJECTED", "WAITING_APPROVAL",
                                "APPROVED", "PAUSED", "DISABLED"}
              THEN ("status" :> status) @@ p1 ELSE p1
    IN  IF sender_id # None THEN ("senderId" :> sender_id) @@ p2 ELSE p2

\* template_list, the query parameters.
template_list_params(channel, sender_id, status) ==
    LET p1 == IF channel # None /\ channel \in {"WHATSAPP", "SMS", "RCS", "EMAIL"}
              THEN "channel" :> channel ELSE <<>>
        p2 == IF status # None
                 /\ status \in {"WAITING_REVIEW", "REJECTED", "WAITING_APPROVAL",
                                "APPROVED", "PAUSED", "DISABLED"}
              THEN ("status" :> status) @@ p1 ELSE p1
    IN  IF sender_id # None THEN ("senderId" :> sender_id) @@ p2 ELSE p2

template_list ==
    \E channel \in TemplateChannels, sender_id \in SenderIds,
       status \in TemplateStatuses :
        /\ Enter("template_list",
                 [channel |-> channel, sender_id |-> sender_id, status |-> status])
        /\ Send("GET", "templates",
                template_list_params(channel, sender_id, status), <<>>)

template_retrieve ==
    \E id \in TemplateIds :
        /\ Enter("template_retrieve", [id |-> id])
        /\ Send("GET", "templates/" \o id, <<>>, <<>>)

Next ==
    \/ webhook_list
    \/ webhook_retrieve
    \/ webhook_delete
    \/ webhook_create
    \/ whatsapp_send_text
    \/ whatsapp_send_templated
    \/ template_list
    \/ template_retrieve
    \/ request_get
    \/ request_post
    \/ request_delete

Spec == Init /\ [][Next]_vars

TypeOK ==
    /\ token \in Tokens
    /\ pc \in {"idle", "waiting"}
    /\ nreq \in {0, 1}
    /\ ncalls \in 0..MaxCalls
    /\ outcome.kind \in {"none", "return", "raise"}

(***************************************************************************)
(* Properties                                                              *)
(***************************************************************************)
Finished == pc = "idle" /\ ncalls > 0
IsCall(op) == call.op = op

ValidationError(o) == o.kind = "raise" /\ o.exc = "ZenviaAPIFunctionValidation"
RequestError(o) == o.kind = "raise" /\ o.exc = "ZenviaAPIRequestException"

\* The rules of webhook_create, as the specification numbers them.
WellFormedUrls == {Url_ok}
ViolatedRules(a) ==
    (IF a.event_type \notin {"MESSAGE", "MESSAGE_STATUS"} THEN {1} ELSE {})
    \cup (IF a.status # None /\ a.status \notin {"ACTIVE", "DEGRADED", "INACTIVE"}
          THEN {2} ELSE {})
    \cup (IF a.event_type = "MESSAGE" /\ a.criteria_direction \notin {"IN", "OUT"}
          THEN {3} ELSE {})
    \cup (IF a.webhook_url \notin WellFormedUrls THEN {4} ELSE {})

\* The rule an error message of webhook_create belongs to.
RuleOfMessage(m) ==
    CASE m = "event_type not in [MESSAGE, MESSAGE_STATUS]" -> 1
      [] m = "status not in [ACTIVE, DEGRADED, INACTIVE]" -> 2
      [] m = "event_type == MESSAGE and criteria_direction is None" -> 3
      [] m = "criteria_direction not in [IN, OUT]" -> 3
      [] m = "webhook_url is not a well formated url" -> 4
      [] OTHER -> 0

NonCoercibleIds == {IdStr(<<"a", "b">>), IdStr(<<>>), IdStr(<<"+">>), IdNone}

\* C1: a call whose arguments fail a local check ends in the error of that
\* check with no HTTP request issued: a webhook_create call that violates a
\* validation rule raises ZenviaAPIFunctionValidation, a webhook_retrieve call
\* whose id is not coercible to an integer raises a type/format error, and
\* neither has sent a request; a request is issued only by calls whose local
\* checks all pass.
C1_LocalErrorsSendNothing ==
    /\ (IsCall("webhook_create") /\ ViolatedRules(call.args) # {})
          => (pc = "idle" /\ ValidationError(outcome) /\ nreq = 0 /\ req = NoReq)
    /\ (IsCall("webhook_retrieve") /\ call.args.id \in NonCoercibleIds)
          => (/\ pc = "idle" /\ outcome.kind = "raise"
              /\ outcome.exc \in {"TypeError", "ValueError"}
              /\ nreq = 0 /\ req = NoReq)
    /\ (IsCall("webhook_create") /\ nreq > 0) => ViolatedRules(call.args) = {}
    /\ (IsCall("webhook_retrieve") /\ nreq > 0) => call.args.id \notin NonCoercibleIds

C1_Witness ==
    /\ IsCall("webhook_create")
    /\ call.args.event_type = "MESSAGE_STATUS"
    /\ call.args.status = "ACTIVE"
    /\ call.args.webhook_url = Url_text
    /\ ValidationError(outcome)
    /\ nreq = 0
    /\ hdrs # {}

Min(set) == CHOOSE x \in set : \A y \in set : x <= y

\* C2: webhook_create raises the error of the first violated rule in the order
\* event_type, status, criteria_direction, webhook_url, also when several
\* rules are violated at once; a null status never raises the status error.
C2_FirstViolatedRuleWins ==
    (IsCall("webhook_create") /\ ViolatedRules(call.args) # {})
        => /\ ValidationError(outcome)
           /\ RuleOfMessage(outcome.msg) = Min(ViolatedRules(call.args))
           /\ call.args.status = None => RuleOfMessage(outcome.msg) # 2

C2_Witness ==
    /\ IsCall("webhook_create")
    /\ ViolatedRules(call.args) = {1, 2, 4}
    /\ ValidationError(outcome)
    /\ outcome.msg = "event_type not in [MESSAGE, MESSAGE_STATUS]"

OtherwiseValid(a) ==
    /\ a.status \in {None, "ACTIVE", "DEGRADED", "INACTIVE"}
    /\ a.webhook_url \in WellFormedUrls

\* C3: for webhook_create with event_type MESSAGE and otherwise valid
\* arguments, a null criteria_direction raises ZenviaAPIFunctionValidation, a
\* non-null one outside {IN, OUT} raises ZenviaAPIFunctionValidation with a
\* message other than that of the null case, and one in {IN, OUT} leads to a
\* POST whose payload has criteria.direction equal to the value passed.
C3_MessageDirection ==
    (IsCall("webhook_create") /\ call.args.event_type = "MESSAGE"
     /\ OtherwiseValid(call.args))
        => LET d == call.args.criteria_direction
               nullMsg == "event_type == MESSAGE and criteria_direction is None"
           IN  /\ d = None => (ValidationError(outcome) /\ outcome.msg = nullMsg
                               /\ nreq = 0)
               /\ (d # None /\ d \notin {"IN", "OUT"})
                     => (ValidationError(outcome) /\ outcome.msg # nullMsg
                         /\ nreq = 0)
               /\ d \in {"IN", "OUT"}
                     => (/\ nreq = 1
                         /\ req.method = "POST"
                         /\ req.url = "https://api.zenvia.com/v2/subscriptions"
                         /\ req.json.criteria.direction = d)

C3_Witness ==
    /\ IsCall("webhook_create")
    /\ call.args.event_type = "MESSAGE"
    /\ call.args.criteria_direction = "OUT"
    /\ nreq = 1
    /\ req.method = "POST"
    /\ req.json.criteria.direction = "OUT"

\* C4: every payload webhook_create posts has a direction key in criteria
\* exactly when eventType is MESSAGE, has version "v2" and has eventType equal
\* to the event_type argument; a MESSAGE_STATUS call is posted without a
\* direction key whatever criteria_direction is, and no value of it is rejected.
C4_DirectionIffMessage ==
    /\ (IsCall("webhook_create") /\ nreq = 1)
          => /\ req.method = "POST"
             /\ ("direction" \in DOMAIN req.json.criteria)
                   <=> (req.json.eventType = "MESSAGE")
             /\ req.json.version = "v2"
             /\ req.json.eventType = call.args.event_type
    /\ (IsCall("webhook_create") /\ call.args.event_type = "MESSAGE_STATUS"
        /\ OtherwiseValid(call.args))
          => (nreq = 1 /\ "direction" \notin DOMAIN req.json.criteria)

C4_Witness ==
    /\ IsCall("webhook_create")
    /\ call.args.event_type = "MESSAGE_STATUS"
    /\ call.args.criteria_direction = "SIDEWAYS"
    /\ nreq = 1
    /\ DOMAIN req.json.criteria = {"channel"}

Is2xx(code) == 200 <= code /\ code < 300
PostOps == {"webhook_create", "whatsapp_send_text", "whatsapp_send_templated"}
Answered == Finished /\ nreq = 1
AnsweredNon2xx == Answered /\ result.kind = "response" /\ ~Is2xx(result.status_code)
SendFailed == Answered /\ result.kind = "exception"

\* C5: every POST answered with a non-2xx status, whatever the response body
\* is, raises ZenviaAPIRequestException with the message
\* "Request response with error status[<code>]:\n<body as JSON, indent 2>";
\* no decoded JSON is returned.
C5_PostErrorMessage ==
    (AnsweredNon2xx /\ req.method = "POST" /\ call.op \in PostOps)
        => /\ RequestError(outcome)
           /\ LET d == response_json(result.body)
              IN  d.ok => outcome.msg = "Request response with error status["
                                        \o ToString(result.status_code) \o "]:\n"
                                        \o json_dumps_indent2(d.value)

\* C6: on GET and DELETE, an exception of the transport and a non-2xx status
\* are both re-raised as ZenviaAPIRequestException carrying the original
\* error's text, and no other exception type reaches the caller.
C6_GetDeleteWrapped ==
    (Answered /\ req.method \in {"GET", "DELETE"})
        => /\ SendFailed => (RequestError(outcome) /\ outcome.msg = result.text)
           /\ AnsweredNon2xx
                 => (/\ RequestError(outcome)
                     /\ outcome.msg = raise_for_status(result, req.url))
           /\ outcome.kind = "raise" => outcome.exc = "ZenviaAPIRequestException"

\* C7: template_list never fails locally and issues one GET to templates whose
\* query parameters are: channel iff the argument is one of the four channels,
\* status iff the argument is one of the six statuses, senderId iff sender_id
\* is not null, each with the value passed.
C7_TemplateListParams ==
    IsCall("template_list")
        => LET a == call.args
               keys == (IF a.channel \in {"WHATSAPP", "SMS", "RCS", "EMAIL"}
                        THEN {"channel"} ELSE {})
                       \cup (IF a.status \in {"WAITING_REVIEW", "REJECTED",
                                              "WAITING_APPROVAL", "APPROVED",
                                              "PAUSED", "DISABLED"}
                             THEN {"status"} ELSE {})
                       \cup (IF a.sender_id # None THEN {"senderId"} ELSE {})
           IN  /\ nreq = 1
               /\ req.method = "GET"
               /\ req.url = "https://api.zenvia.com/v2/templates"
               /\ DOMAIN req.params = keys
               /\ "channel" \in keys => req.params["channel"] = a.channel
               /\ "status" \in keys => req.params["status"] = a.status
               /\ "senderId" \in keys => req.params["senderId"] = a.sender_id

C7_Witness ==
    /\ IsCall("template_list")
    /\ call.args.channel = "INVALID"
    /\ call.args.status = "ACTIVE"
    /\ call.args.sender_id = "soft-harbor"
    /\ nreq = 1
    /\ DOMAIN req.params = {"senderId"}

\* C8: a public call makes one network round trip and never retries: a call
\* that reaches the transport issues exactly one request, and when that request
\* failed (transport exception or non-2xx status) the call ends at once in
\* ZenviaAPIRequestException.
C8_OneRoundTripNoRetry ==
    Finished
        => /\ nreq <= 1
           /\ nreq = 0 => (outcome.kind = "raise" /\ ~RequestError(outcome))
           /\ (SendFailed \/ AnsweredNon2xx) => RequestError(outcome)

\* C9: the client's token is the one given at construction, every request
\* issued carried X-API-Token with that token, and construction sent nothing.
C9_TokenFixedAndSent ==
    /\ token = initToken
    /\ \A h \in hdrs : /\ "X-API-Token" \in DOMAIN h
                       /\ h["X-API-Token"] = initToken
    /\ nreq = 1 => req.headers \in hdrs
    /\ ncalls = 0 => (hdrs = {} /\ nreq = 0 /\ pc = "idle")

C9_Witness ==
    /\ Finished
    /\ ncalls >= 2
    /\ nreq = 1
    /\ outcome.kind = "raise"
    /\ token = ""
    /\ req.headers = ("X-API-Token" :> "")

\* C10: once a request has been sent, the call ends either by returning the
\* decoded JSON body or by raising ZenviaAPIRequestException, whatever the
\* response body is.
C10_OnlyClientExceptions ==
    Answered => (outcome.kind = "return" \/ RequestError(outcome))

====
